---- MODULE Spec2Model ----
(***************************************************************************)
(* Bubble series geometry of Highcharts (js/parts-more/BubbleSeries.js):   *)
(* getRadii, translate and Axis.prototype.beforePadding, together with the *)
(* responsive relayout sequence exercised by the drilldown test.           *)
(*                                                                         *)
(* Numbers.  A JavaScript number is modelled as an exact rational          *)
(* <<n, d>> with d > 0 in lowest terms; <<1,0>>, <<-1,0>> and <<0,0>>      *)
(* stand for Infinity, -Infinity and NaN.  Arithmetic is exact (no         *)
(* floating-point rounding); null and undefined are the values Null and    *)
(* Undefined.                                                              *)
(***************************************************************************)
EXTENDS Integers, Sequences, FiniteSets, TLC

VARIABLES
    chart,      \* [plotWidth, plotHeight, ignoreHiddenSeries]
    series,     \* sequence of series objects (options, data, radii, ...)
    xAxis,      \* the X axis object
    yAxis,      \* the Y axis object
    last,       \* record of the most recent beforePadding/translate call
    calls,      \* beforePadding calls made so far on each axis: [x, y]
    rcall,      \* arguments and result of a direct getRadii call
    relayout    \* chart-level responsive/drilldown state

vars == <<chart, series, xAxis, yAxis, last, calls, rcall, relayout>>

\* null and undefined, kept apart from every number <<n, d>> (d >= 0)
Null == <<0, -1>>
Undefined == <<0, -2>>

----------------------------------------------------------------------------
(* Exact arithmetic on JavaScript numbers *)

Abs(i) == IF i < 0 THEN -i ELSE i

Sgn(i) == IF i < 0 THEN -1 ELSE IF i > 0 THEN 1 ELSE 0

RECURSIVE Gcd(_, _)
Gcd(a, b) == IF b = 0 THEN a ELSE Gcd(b, a % b)

\* the rational n/d (d # 0) in lowest terms with a positive denominator
Norm(n, d) ==
    LET g == Gcd(Abs(n), Abs(d))
        s == IF d < 0 THEN -1 ELSE 1
    IN  <<(s * n) \div g, (s * d) \div g>>

R(i) == <<i, 1>>
Zero == <<0, 1>>
Infinity == <<1, 0>>
NegInfinity == <<-1, 0>>
NaN == <<0, 0>>

IsNaN(a) == a = NaN
IsInf(a) == a[2] = 0 /\ a[1] # 0
IsFinite(a) == a[2] > 0

Neg(a) == <<-a[1], a[2]>>

Add(a, b) ==
    IF IsNaN(a) \/ IsNaN(b) THEN NaN
    ELSE IF IsInf(a) THEN (IF IsInf(b) /\ a # b THEN NaN ELSE a)
    ELSE IF IsInf(b) THEN b
    ELSE Norm(a[1] * (b[2] \div Gcd(a[2], b[2]))
                + b[1] * (a[2] \div Gcd(a[2], b[2])),
              (a[2] \div Gcd(a[2], b[2])) * b[2])

Sub(a, b) == Add(a, Neg(b))

Mul(a, b) ==
    IF IsNaN(a) \/ IsNaN(b) THEN NaN
    ELSE IF IsInf(a) \/ IsInf(b)
         THEN (IF a[1] = 0 \/ b[1] = 0 THEN NaN
               ELSE <<Sgn(a[1]) * Sgn(b[1]), 0>>)
    ELSE Norm((a[1] \div Gcd(Abs(a[1]), b[2])) * (b[1] \div Gcd(Abs(b[1]), a[2])),
              (a[2] \div Gcd(Abs(b[1]), a[2])) * (b[2] \div Gcd(Abs(a[1]), b[2])))

\* JavaScript division; a zero divisor is +0
Div(a, b) ==
    IF IsNaN(a) \/ IsNaN(b) THEN NaN
    ELSE IF IsInf(a)
         THEN (IF IsInf(b) THEN NaN
               ELSE <<Sgn(a[1]) * (IF b[1] < 0 THEN -1 ELSE 1), 0>>)
    ELSE IF IsInf(b) THEN Zero
    ELSE IF b[1] = 0 THEN <<Sgn(a[1]), 0>>
    ELSE Norm((a[1] \div Gcd(Abs(a[1]), Abs(b[1]))) * (b[2] \div Gcd(a[2], b[2])),
              (a[2] \div Gcd(a[2], b[2])) * (b[1] \div Gcd(Abs(a[1]), Abs(b[1]))))

\* a < b; false when either side is NaN
Lt(a, b) ==
    IF IsNaN(a) \/ IsNaN(b) THEN FALSE
    ELSE IF IsInf(a) \/ IsInf(b)
         THEN (IF a = b THEN FALSE
               ELSE a = NegInfinity \/ b = Infinity)
    ELSE a[1] * (b[2] \div Gcd(a[2], b[2])) < b[1] * (a[2] \div Gcd(a[2], b[2]))

Le(a, b) == ~IsNaN(a) /\ ~IsNaN(b) /\ (a = b \/ Lt(a, b))
Gt(a, b) == Lt(b, a)
Ge(a, b) == Le(b, a)

\* Math.min / Math.max of two numbers
MathMin(a, b) == IF IsNaN(a) \/ IsNaN(b) THEN NaN ELSE IF Lt(b, a) THEN b ELSE a
MathMax(a, b) == IF IsNaN(a) \/ IsNaN(b) THEN NaN ELSE IF Lt(a, b) THEN b ELSE a

\* Math.abs
MathAbs(a) == <<Abs(a[1]), a[2]>>

\* Math.ceil of a finite number, as an integer
CeilInt(a) == IF a[1] % a[2] = 0 THEN a[1] \div a[2] ELSE (a[1] \div a[2]) + 1

\* ToNumber applied by an arithmetic operator: null becomes 0
ToNumber(v) == IF v = Null THEN Zero ELSE v

----------------------------------------------------------------------------
(* Math.ceil(minSize + Math.sqrt(pos) * delta), computed exactly *)

\* smallest power-of-two multiple h of 1 with h*h*d >= n
RECURSIVE SqrtUpper(_, _, _)
SqrtUpper(n, d, h) == IF h * h * d >= n THEN h ELSE SqrtUpper(n, d, 2 * h)

\* least u in lo..hi with u*u*d >= n (hi satisfies it)
RECURSIVE SqrtSearch(_, _, _, _)
SqrtSearch(n, d, lo, hi) ==
    IF lo >= hi THEN hi
    ELSE LET mid == (lo + hi) \div 2
         IN  IF mid * mid * d >= n THEN SqrtSearch(n, d, lo, mid)
             ELSE SqrtSearch(n, d, mid + 1, hi)

\* least integer u >= 0 with u*u >= n/d, for n >= 0, d > 0
CeilSqrt(n, d) == SqrtSearch(n, d, 0, SqrtUpper(n, d, 1))

\* greatest integer u >= 0 with u*u <= n/d
FloorSqrt(n, d) ==
    LET u == CeilSqrt(n, d) IN IF u * u * d = n THEN u ELSE u - 1

\* Math.ceil(m + Math.sqrt(pos) * delta) for finite m, delta and pos >= 0
CeilWithSqrt(m, pos, delta) ==
    LET t == Mul(Mul(delta, delta), pos)      \* (delta * sqrt(pos))^2
        n == t[1] * m[2] * m[2]
        d == t[2]
    IN  IF delta[1] >= 0
        THEN CeilInt(Norm(m[1] + CeilSqrt(n, d), m[2]))
        ELSE CeilInt(Norm(m[1] - FloorSqrt(n, d), m[2]))

----------------------------------------------------------------------------
(* Utilities imported from H (Utilities.js) *)

\* pick(a, b): the first argument that is neither undefined nor null
pick(a, b) == IF a # Undefined /\ a # Null THEN a
              ELSE IF b # Undefined /\ b # Null THEN b
              ELSE Undefined

\* isNumber(n) on the values of the model (finite numbers, NaN, null)
isNumber(n) == n # Null /\ n # Undefined /\ ~IsNaN(n)

\* the non-null entries of a data array
Numbers(data) == {data[i] : i \in {j \in 1..Len(data) : data[j] # Null}}

\* arrayMin / arrayMax over the numeric entries; Undefined if there are none
arrayMin(data) ==
    IF Numbers(data) = {} THEN Undefined
    ELSE CHOOSE m \in Numbers(data) : \A v \in Numbers(data) : Le(m, v)

arrayMax(data) ==
    IF Numbers(data) = {} THEN Undefined
    ELSE CHOOSE m \in Numbers(data) : \A v \in Numbers(data) : Ge(m, v)

----------------------------------------------------------------------------
(* Series.getRadii: src/js/parts-more/BubbleSeries.js 307-351 *)

\* relative size of a value: zRange > 0 ? (value - zMin) / zRange : 0.5
RelativePos(value, zMin, zRange) ==
    IF Gt(zRange, Zero) THEN Div(Sub(value, zMin), zRange) ELSE <<1, 2>>

\* SizedRadius with the size range taken the wrong way round
SizedRadius_Inverted(pos, sizeByArea, minSize, maxSize) ==
    LET delta == Sub(minSize, maxSize)
    IN  IF sizeByArea /\ Ge(pos, Zero)
        THEN Div(R(CeilWithSqrt(minSize, pos, delta)), R(2))
        ELSE Div(R(CeilInt(Add(minSize, Mul(pos, delta)))), R(2))

\* Math.ceil(minSize + pos * (maxSize - minSize)) / 2, with the square root
\* applied to pos when sizing by area
SizedRadius(pos, sizeByArea, minSize, maxSize) ==
    LET delta == Sub(maxSize, minSize)
    IN  IF sizeByArea /\ Ge(pos, Zero)
        THEN Div(R(CeilWithSqrt(minSize, pos, delta)), R(2))
        ELSE Div(R(CeilInt(Add(minSize, Mul(pos, delta)))), R(2))

\* radius of a value below zMin: minSize / 2 - 1
BelowMinRadius(minSize) == Sub(Div(minSize, R(2)), R(1))

\* RadiusStep without `zMin = 0` in the sizeByAbsoluteValue branch
RadiusStep_NoMinReset(z, options, zMin, zMax, zRange, minSize, maxSize) ==
    LET byAbs == options.sizeByAbsoluteValue /\ z # Null
        value == IF byAbs THEN MathAbs(Sub(z, options.zThreshold)) ELSE z
        radius == IF value = Null THEN Null
                  ELSE IF Lt(value, zMin) THEN BelowMinRadius(minSize)
                  ELSE SizedRadius(RelativePos(value, zMin, zRange),
                                   options.sizeBy # "width", minSize, maxSize)
    IN  [radius |-> radius, zMin |-> zMin, zMax |-> zMax]

\* one iteration of the loop: the radius pushed and the (zMin, zMax) it
\* leaves behind for the next iteration
RadiusStep(z, options, zMin, zMax, zRange, minSize, maxSize) ==
    LET byAbs == options.sizeByAbsoluteValue /\ z # Null
        value == IF byAbs THEN MathAbs(Sub(z, options.zThreshold)) ELSE z
        zMax2 == IF byAbs
                 THEN MathMax(Sub(zMax, options.zThreshold),
                              MathAbs(Sub(zMin, options.zThreshold)))
                 ELSE zMax
        zMin2 == IF byAbs THEN Zero ELSE zMin
        radius == IF value = Null THEN Null
                  ELSE IF Lt(value, zMin2) THEN BelowMinRadius(minSize)
                  ELSE SizedRadius(RelativePos(value, zMin2, zRange),
                                   options.sizeBy # "width", minSize, maxSize)
    IN  [radius |-> radius, zMin |-> zMin2, zMax |-> zMax2]

RECURSIVE RadiiLoop(_, _, _, _, _, _, _, _)

\* radii.push(radius) and the next iteration
RadiiPush(zData, i, options, zRange, minSize, maxSize, st) ==
    <<st.radius>> \o RadiiLoop(zData, i + 1, options, st.zMin, st.zMax,
                               zRange, minSize, maxSize)

RadiiLoop(zData, i, options, zMin, zMax, zRange, minSize, maxSize) ==
    IF i > Len(zData) THEN << >>
    ELSE RadiiPush(zData, i, options, zRange, minSize, maxSize,
                   RadiusStep(zData[i], options, zMin, zMax, zRange,
                              minSize, maxSize))

\* the radii array stored in this.radii
getRadii(zData, options, zMin, zMax, minSize, maxSize) ==
    RadiiLoop(zData, 1, options, zMin, zMax, Sub(zMax, zMin), minSize, maxSize)

----------------------------------------------------------------------------
(* Size options: a number or a string such as "20%", kept as its characters *)

DigitChars == <<"0", "1", "2", "3", "4", "5", "6", "7", "8", "9">>

IsDigit(c) == \E k \in 1..Len(DigitChars) : DigitChars[k] = c

DigitVal(c) == (CHOOSE k \in 1..Len(DigitChars) : DigitChars[k] = c) - 1

\* parseInt(length, 10): the leading run of digits; NaN when there is none
RECURSIVE ParseDigits(_, _, _)
ParseDigits(str, i, acc) ==
    IF i > Len(str) \/ ~IsDigit(str[i]) THEN acc
    ELSE ParseDigits(str, i + 1, 10 * acc + DigitVal(str[i]))

pInt(str) ==
    IF Len(str) = 0 \/ ~IsDigit(str[1]) THEN NaN ELSE R(ParseDigits(str, 1, 0))

\* /%$/.test(length)
isPercent(str) == Len(str) > 0 /\ str[Len(str)] = "%"

\* extremes[prop]: a percentage is relative to the smallest plot dimension
SizeExtreme(length, smallestSize) ==
    IF isPercent(length)
    THEN Div(Mul(smallestSize, pInt(length)), R(100))
    ELSE pInt(length)

----------------------------------------------------------------------------
(* Axis.prototype.beforePadding: src/js/parts-more/BubbleSeries.js 453-569 *)

\* Number.MAX_VALUE and -Number.MAX_VALUE: larger (smaller) than every z of
\* the model; their difference overflows to -Infinity as in JavaScript
MAX_VALUE == Infinity
NEG_MAX_VALUE == NegInfinity

\* series.bubblePadding && (series.visible || !ignoreHiddenSeries)
Contributes(s, ch) ==
    s.bubblePadding /\ (s.visible \/ ~ch.ignoreHiddenSeries)

\* the zMin found after looking at one series' options and z-data
NextZMin(zMin, s) ==
    pick(s.options.zMin,
         MathMin(zMin,
                 MathMax(arrayMin(s.zData),
                         IF s.options.displayNegative = FALSE
                         THEN s.options.zThreshold
                         ELSE NEG_MAX_VALUE)))

\* the zMax found after looking at one series' options and z-data
NextZMax(zMax, s) ==
    pick(s.options.zMax, MathMax(zMax, arrayMax(s.zData)))

\* series.minPxSize: the resolved minSize
MinPxSize(s, ch) ==
    SizeExtreme(s.options.minSize, MathMin(R(ch.plotWidth), R(ch.plotHeight)))

\* MaxPxSize without the priority of the minimum size (#5873)
MaxPxSize_NoPriority(s, ch) ==
    SizeExtreme(s.options.maxSize, MathMin(R(ch.plotWidth), R(ch.plotHeight)))

\* series.maxPxSize: Math.max(extremes.maxSize, extremes.minSize)
MaxPxSize(s, ch) ==
    MathMax(SizeExtreme(s.options.maxSize,
                        MathMin(R(ch.plotWidth), R(ch.plotHeight))),
            SizeExtreme(s.options.minSize,
                        MathMin(R(ch.plotWidth), R(ch.plotHeight))))

\* the accumulator of the first loop after a contributing series on the
\* X axis: its pixel sizes are set, then the z extremes are widened
CollectSized(acc, i, s) ==
    [active |-> Append(acc.active, i),
     series |-> [acc.series EXCEPT ![i] = s],
     zMin |-> IF Len(s.zData) # 0 THEN NextZMin(acc.zMin, s) ELSE acc.zMin,
     zMax |-> IF Len(s.zData) # 0 THEN NextZMax(acc.zMax, s) ELSE acc.zMax]

\* first loop over this.series (lines 471-524), from series i on: the
\* series with their pixel sizes, the active series and the z extremes
RECURSIVE Collect(_, _, _, _, _)
Collect(ss, i, ch, isXAxis, acc) ==
    IF i > Len(ss) THEN acc
    ELSE IF ~Contributes(ss[i], ch) THEN Collect(ss, i + 1, ch, isXAxis, acc)
    ELSE IF ~isXAxis
         THEN Collect(ss, i + 1, ch, isXAxis,
                      [acc EXCEPT !.active = Append(@, i)])
    ELSE Collect(ss, i + 1, ch, isXAxis,
                 CollectSized(acc, i,
                              [ss[i] EXCEPT !.minPxSize = MinPxSize(ss[i], ch),
                                            !.maxPxSize = MaxPxSize(ss[i], ch)]))

\* the data array of a series along an axis: xData or yData
DataOf(s, isXAxis) == IF isXAxis THEN s.xData ELSE s.yData

\* the point is counted: isNumber(data[i]) && dataMin <= data[i] <= dataMax
Counted(v, axis) ==
    isNumber(v) /\ Le(axis.dataMin, v) /\ Le(v, axis.dataMax)

\* series.radii before the first getRadii call: the property is undefined.
\* (An array of radii holds numbers and nulls only.)
NoRadii == <<Undefined>>

\* series.radii[i] as read by the padding loop; undefined past the end
RadiusAt(radii, i) == IF i <= Len(radii) THEN radii[i] ELSE Undefined

\* operand of the subtraction/addition: null is 0, undefined is NaN
RadiusOperand(r) == IF r = Undefined THEN NaN ELSE ToNumber(r)

\* pxMin and pxMax after one counted point at pixel position pos
PadPoint(pos, radius, px) ==
    [pxMin |-> MathMin(Sub(pos, radius), px.pxMin),
     pxMax |-> MathMax(Add(pos, radius), px.pxMax)]

\* while (i--) over one series' data (lines 537-553)
RECURSIVE PadPoints(_, _, _, _, _, _)
PadPoints(data, radii, i, axis, transA, px) ==
    IF i = 0 THEN px
    ELSE IF ~Counted(data[i], axis)
         THEN PadPoints(data, radii, i - 1, axis, transA, px)
    ELSE PadPoints(data, radii, i - 1, axis, transA,
                   PadPoint(Mul(Sub(data[i], axis.min), transA),
                            RadiusOperand(RadiusAt(radii, i)), px))

\* WithRadii giving getRadii the extremes of the series' own z-data
WithRadii_OwnExtremes(s, axis, z) ==
    IF axis.isXAxis
    THEN [s EXCEPT !.radii = getRadii(s.zData, s.options, arrayMin(s.zData),
                                      arrayMax(s.zData),
                                      s.minPxSize, s.maxPxSize)]
    ELSE s

\* the series after `if (isXAxis) series.getRadii(...)`
WithRadii(s, axis, z) ==
    IF axis.isXAxis
    THEN [s EXCEPT !.radii = getRadii(s.zData, s.options, z.zMin, z.zMax,
                                      s.minPxSize, s.maxPxSize)]
    ELSE s

\* reading series.radii[i] of a series without radii throws
PadFault(s, data, axis) ==
    /\ Gt(Sub(axis.max, axis.min), Zero)
    /\ s.radii = NoRadii
    /\ \E j \in 1..Len(data) : Counted(data[j], axis)

\* the accumulator of the second loop after series i, given with its radii
PadSeries(i, s, data, axis, transA, acc) ==
    IF PadFault(s, data, axis)
    THEN [acc EXCEPT !.series[i] = s, !.fault = TRUE]
    ELSE IF ~Gt(Sub(axis.max, axis.min), Zero)
    THEN [acc EXCEPT !.series[i] = s]
    ELSE [acc EXCEPT !.series[i] = s,
                     !.px = PadPoints(data, s.radii, Len(data), axis, transA, @)]

\* second loop, over activeSeries (lines 526-555), from position k on
RECURSIVE RadiiAndPad(_, _, _, _, _, _)
RadiiAndPad(active, k, axis, z, transA, acc) ==
    IF k > Len(active) THEN acc
    ELSE RadiiAndPad(active, k + 1, axis, z, transA,
                     PadSeries(active[k],
                               WithRadii(acc.series[active[k]], axis, z),
                               DataOf(acc.series[active[k]], axis.isXAxis),
                               axis, transA, acc))

\* Extend looking at the option only, not at userMin / userMax
Extend_OptionOnly(value, optionValue, userValue, px, transA) ==
    IF optionValue = Undefined
    THEN Add(value, Div(px, transA))
    ELSE value

\* axis[key] after the last block: moved by px / transA unless pinned
Extend(value, optionValue, userValue, px, transA) ==
    IF pick(optionValue, userValue) = Undefined
    THEN Add(value, Div(px, transA))
    ELSE value

\* the last block (lines 557-568): pxMax -= axisLength, transA is scaled,
\* and min and max are extended
Padded(axis, pxMin, pxMax, transA) ==
    [axis EXCEPT
        !.min = Extend(@, axis.options.min, axis.userMin, pxMin, transA),
        !.max = Extend(@, axis.options.max, axis.userMax, pxMax, transA)]

\* ExtendAxis without `transA *= (axisLength + pxMin - pxMax) / axisLength`
ExtendAxis_OldTransA(axis, pxMin, pxMax, transA) ==
    Padded(axis, pxMin, Sub(pxMax, R(axis.len)), transA)

ExtendAxis(axis, pxMin, pxMax, transA) ==
    Padded(axis, pxMin, Sub(pxMax, R(axis.len)),
           Mul(transA, Div(Sub(Add(R(axis.len), pxMin),
                               Sub(pxMax, R(axis.len))),
                           R(axis.len))))

\* Applies without the test for a logarithmic axis
Applies_LogToo(axis, active) ==
    Len(active) # 0 /\ Gt(Sub(axis.max, axis.min), Zero)

\* activeSeries.length && range > 0 && !this.isLog
Applies(axis, active) ==
    Len(active) # 0 /\ Gt(Sub(axis.max, axis.min), Zero) /\ ~axis.isLog

\* what the method leaves: the axis, the series, and the final values of
\* its locals zMin, zMax, pxMin, pxMax (before pxMax -= axisLength) and
\* activeSeries
Outcome(axis, transA, c, p) ==
    [axis |-> IF Applies(axis, c.active) /\ ~p.fault
              THEN ExtendAxis([axis EXCEPT !.allowZoomOutside = TRUE],
                              p.px.pxMin, p.px.pxMax, transA)
              ELSE [axis EXCEPT !.allowZoomOutside =
                                   IF Len(c.active) # 0 THEN TRUE ELSE @],
     series |-> p.series,
     active |-> c.active,
     zMin |-> c.zMin, zMax |-> c.zMax,
     pxMin |-> p.px.pxMin, pxMax |-> p.px.pxMax,
     applied |-> Applies(axis, c.active) /\ ~p.fault,
     fault |-> p.fault]

Padding(axis, transA, c) ==
    Outcome(axis, transA, c,
            RadiiAndPad(c.active, 1, axis, c, transA,
                        [series |-> c.series,
                         px |-> [pxMin |-> Zero, pxMax |-> R(axis.len)],
                         fault |-> FALSE]))

beforePadding(axis, ss, ch) ==
    Padding(axis, Div(R(axis.len), Sub(axis.max, axis.min)),
            Collect(ss, 1, ch, axis.isXAxis,
                    [active |-> << >>, series |-> ss,
                     zMin |-> MAX_VALUE, zMax |-> NEG_MAX_VALUE]))

----------------------------------------------------------------------------
(* Series.translate of the bubble series: lines 393-431 *)

\* the parent (scatter) translate: a point with a y value gets a plotY
ParentTranslate(s) ==
    [i \in 1..Len(s.points) |->
        [s.points[i] EXCEPT !.plotY = IF s.yData[i] = Null THEN "undefined"
                                      ELSE "number"]]

\* radius = radii ? radii[i] : 0
TranslateRadius(s, i) ==
    IF s.radii = NoRadii THEN Zero ELSE RadiusAt(s.radii, i)

\* isNumber(radius) && radius >= this.minPxSize / 2
IsDrawn(radius, minPxSize) ==
    /\ isNumber(radius)
    /\ Ge(radius, Div(IF minPxSize = Undefined THEN NaN ELSE minPxSize, R(2)))

\* the loop body for one point
TranslatePoint(pt, radius, minPxSize) ==
    IF IsDrawn(radius, minPxSize)
    THEN [pt EXCEPT !.markerRadius = radius, !.dlBox = "box"]
    ELSE [pt EXCEPT !.shapeArgs = "undefined", !.plotY = "undefined",
                    !.dlBox = "undefined"]

translate(s) ==
    LET pts == ParentTranslate(s)
    IN  [s EXCEPT !.points =
            [i \in 1..Len(pts) |->
                TranslatePoint(pts[i], TranslateRadius(s, i), s.minPxSize)]]

----------------------------------------------------------------------------
(* Objects *)

\* plotOptions.bubble defaults (lines 38-263); zMin and zMax are not set
DefaultOptions ==
    [minSize |-> <<"8">>, maxSize |-> <<"2", "0", "%">>, sizeBy |-> "area",
     sizeByAbsoluteValue |-> FALSE, zThreshold |-> Zero,
     zMin |-> Undefined, zMax |-> Undefined, displayNegative |-> TRUE]

\* a point before any translate
NewPoint ==
    [plotY |-> "undefined", markerRadius |-> Undefined,
     dlBox |-> "undefined", shapeArgs |-> "undefined"]

\* a series after construction and data parsing: no radii, no pixel sizes
NewSeries(options, bubblePadding, visible, xData, yData, zData) ==
    [options |-> options, bubblePadding |-> bubblePadding,
     visible |-> visible, xData |-> xData, yData |-> yData, zData |-> zData,
     radii |-> NoRadii, minPxSize |-> Undefined, maxPxSize |-> Undefined,
     points |-> [i \in 1..Len(xData) |-> NewPoint]]

\* an axis with its extremes as found before beforePadding is called; pin
\* says how the user fixed an extreme: through the option or setExtremes
NewAxis(isXAxis, len, min, max, dataMin, dataMax, pinMin, pinMax, isLog) ==
    [isXAxis |-> isXAxis, len |-> len, min |-> R(min), max |-> R(max),
     dataMin |-> R(dataMin), dataMax |-> R(dataMax), isLog |-> isLog,
     options |-> [min |-> IF pinMin = "option" THEN R(min) ELSE Undefined,
                  max |-> IF pinMax = "option" THEN R(max) ELSE Undefined],
     userMin |-> IF pinMin = "user" THEN R(min) ELSE Undefined,
     userMax |-> IF pinMax = "user" THEN R(max) ELSE Undefined,
     allowZoomOutside |-> FALSE]

NoCall ==
    [op |-> "none", repeat |-> FALSE, xDone |-> FALSE,
     min |-> Zero, max |-> Zero, zMin |-> Zero, zMax |-> Zero,
     min0 |-> Zero, max0 |-> Zero,
     pxMin |-> Zero, pxMax |-> Zero, active |-> << >>,
     applied |-> FALSE, fault |-> FALSE]

NoRadiiCall == [done |-> FALSE]
NoRelayout == [state |-> "off"]

----------------------------------------------------------------------------
(* Bounds and the charts explored *)

\* largest z value of a point
MaxZ == 4

Bools == {TRUE, FALSE}
Pins == {"none", "option", "user"}

\* z-data of a two-point series: numbers or null, not both null
ZValues == {Null, R(-1), R(MaxZ)}
ZPairs == {<<a, b>> : a \in ZValues, b \in ZValues} \ {<<Null, Null>>}

\* a line series: no bubble padding, no z-data
LineSeries == NewSeries(DefaultOptions, FALSE, TRUE, <<R(10)>>, <<R(2)>>, << >>)

\* a second series sharing the axes: none, or a one-point bubble series
\* with default options
Companions(zs) ==
    {<< >>}
    \cup {<<NewSeries(DefaultOptions, TRUE, TRUE, <<R(10)>>, <<R(2)>>, <<z>>)>> :
            z \in zs}

\* a small plot area: 20% of its smallest side is 10 pixels
PlainChart == [plotWidth |-> 60, plotHeight |-> 50, ignoreHiddenSeries |-> TRUE]

\* the default options with a minimum size of 4 pixels
PlainOptions == [DefaultOptions EXCEPT !.minSize = <<"4">>]

\* charts that vary the z mapping of the first series
ZCharts ==
    {[chart |-> PlainChart,
      series |-> <<NewSeries([PlainOptions EXCEPT
                                 !.sizeBy = by, !.sizeByAbsoluteValue = abs,
                                 !.zThreshold = thr, !.zMin = zmin,
                                 !.zMax = zmax, !.displayNegative = dn],
                             TRUE, TRUE, <<R(0), R(20)>>, <<R(1), R(3)>>, zs)>>
                 \o co,
      xAxis |-> NewAxis(TRUE, 60, 0, 20, 0, 20, "none", "none", FALSE),
      yAxis |-> NewAxis(FALSE, 50, 0, 4, 0, 4, "none", "none", FALSE)] :
        by \in {"area", "width"}, abs \in Bools, thr \in {R(0)},
        zmin \in {Undefined, R(-2)}, zmax \in {Undefined, R(3)},
        dn \in Bools, zs \in ZPairs,
        co \in Companions({R(-2), R(MaxZ + 1)}) \cup {<<LineSeries>>}}

\* extremes of an axis before padding: min, max, dataMin, dataMax
Extents ==
    {<<0, 20, 0, 20>>,     \* the data extremes
     <<2, 20, 0, 20>>,     \* min raised above dataMin (floor, zoom)
     <<1, 20, 1, 20>>,     \* extremes of the cropped data
     <<20, 20, 20, 20>>,   \* a single position: zero range
     <<20, 0, 0, 20>>}     \* min above max: negative range

\* how the axis is set up: pinned minimum, pinned maximum, logarithmic
AxisKinds ==
    {<<pmin, pmax, FALSE>> : pmin \in Pins, pmax \in Pins}
    \cup {<<"none", "none", TRUE>>}

\* charts that vary the axis geometry and the positions of the points
AxisCharts ==
    {[chart |-> PlainChart,
      series |-> <<NewSeries(PlainOptions, TRUE, TRUE, xs, <<R(1), R(3)>>, zs)>>
                 \o co,
      xAxis |-> NewAxis(TRUE, 60, e[1], e[2], e[3], e[4], k[1], k[2], k[3]),
      yAxis |-> NewAxis(FALSE, 50, 0, 4, 0, 4, k[2], k[1], k[3])] :
        xs \in {<<R(0), R(20)>>, <<R(1), R(20)>>, <<R(0), R(1)>>,
                <<R(1), R(1)>>, <<R(20), R(0)>>, <<R(20), R(20)>>},
        zs \in {<<R(1), R(MaxZ)>>, <<R(MaxZ), R(1)>>, <<Null, R(MaxZ)>>},
        e \in Extents, k \in AxisKinds, co \in Companions({R(2)})}

\* charts that vary the size options, the plot area and which series
\* contribute
SizeCharts ==
    {[chart |-> [plotWidth |-> dim[1], plotHeight |-> dim[2],
                 ignoreHiddenSeries |-> ihs],
      series |-> <<NewSeries([DefaultOptions EXCEPT !.minSize = mn, !.maxSize = mx],
                             bp, vis, <<R(0), R(40)>>, <<R(0), R(4)>>,
                             <<R(1), R(MaxZ)>>)>>
                 \o co,
      xAxis |-> NewAxis(TRUE, dim[1], 0, 40, 0, 40, "none", "none", FALSE),
      yAxis |-> NewAxis(FALSE, dim[2], 0, 4, 0, 4, "none", "none", FALSE)] :
        dim \in {<<200, 100>>, <<60, 90>>}, ihs \in Bools,
        mn \in {<<"8">>, <<"5", "0", "%">>},
        mx \in {<<"2", "0", "%">>, <<"1", "0", "%">>, <<"3", "0">>,
                <<"1", "5", "0", "%">>},
        bp \in Bools, vis \in Bools,
        co \in Companions({R(2)}) \cup {<<LineSeries>>}}

Charts == ZCharts \cup AxisCharts \cup SizeCharts

----------------------------------------------------------------------------
(* The chart as a state machine *)

Init ==
    /\ \E c \in Charts :
          /\ chart = c.chart
          /\ series = c.series
          /\ xAxis = c.xAxis
          /\ yAxis = c.yAxis
    /\ last = NoCall
    /\ calls = [x |-> 0, y |-> 0]
    /\ rcall = NoRadiiCall
    /\ relayout = NoRelayout

\* what a beforePadding call leaves in `last`: the axis extremes before
\* the call (min, max) and before the first of two successive calls (min0,
\* max0), and the final values of the method's locals
PaddingCall(op, axis, r) ==
    [op |-> op, repeat |-> last.op = op,
     xDone |-> last.xDone \/ axis.isXAxis,
     min |-> axis.min, max |-> axis.max, zMin |-> r.zMin, zMax |-> r.zMax,
     min0 |-> IF last.op = op THEN last.min ELSE axis.min,
     max0 |-> IF last.op = op THEN last.max ELSE axis.max,
     pxMin |-> r.pxMin, pxMax |-> r.pxMax, active |-> r.active,
     applied |-> r.applied, fault |-> r.fault]

\* the state after a beforePadding call with outcome r on the X axis
DoneX(r) ==
    /\ xAxis' = r.axis
    /\ series' = r.series
    /\ last' = PaddingCall("beforePaddingX", xAxis, r)

\* the same on the Y axis
DoneY(r) ==
    /\ yAxis' = r.axis
    /\ series' = r.series
    /\ last' = PaddingCall("beforePaddingY", yAxis, r)

\* xAxis.beforePadding().  An axis is padded at most twice in a behaviour,
\* the second time directly after the first: the exact extremes after a
\* third call outgrow TLC's integers.
BeforePaddingX ==
    /\ calls.x = 0 \/ (calls.x = 1 /\ last.op = "beforePaddingX")
    /\ DoneX(beforePadding(xAxis, series, chart))
    /\ calls' = [calls EXCEPT !.x = @ + 1]
    /\ UNCHANGED <<chart, yAxis, rcall, relayout>>

\* yAxis.beforePadding(); the X axis is evaluated first
BeforePaddingY ==
    /\ calls.y = 0 \/ (calls.y = 1 /\ last.op = "beforePaddingY")
    /\ last.xDone
    /\ DoneY(beforePadding(yAxis, series, chart))
    /\ calls' = [calls EXCEPT !.y = @ + 1]
    /\ UNCHANGED <<chart, xAxis, rcall, relayout>>

\* series[i].translate() of a bubble series, once the axes have been
\* scaled (getRadii "must be done prior to Series.translate")
Translate ==
    /\ last.xDone
    /\ \E i \in 1..Len(series) :
          /\ series[i].bubblePadding
          /\ series' = [series EXCEPT ![i] = translate(series[i])]
    /\ UNCHANGED <<chart, xAxis, yAxis, last, calls, rcall, relayout>>

Next == BeforePaddingX \/ BeforePaddingY \/ Translate

Spec == Init /\ [][Next]_vars

----------------------------------------------------------------------------
(* Claims about beforePadding and translate *)

PaddingOps == {"beforePaddingX", "beforePaddingY"}

\* the axis the most recent beforePadding call was made on
LastAxis == IF last.op = "beforePaddingY" THEN yAxis ELSE xAxis

\* that axis as it was when the call was made
AxisBefore == [LastAxis EXCEPT !.min = last.min, !.max = last.max]

\* a sequence without its i-th element
Without(seq, i) == SubSeq(seq, 1, i - 1) \o SubSeq(seq, i + 1, Len(seq))

\* a series without its i-th point
SeriesWithout(s, i) ==
    [s EXCEPT !.xData = Without(@, i), !.yData = Without(@, i),
              !.zData = Without(@, i), !.points = Without(@, i),
              !.radii = IF @ = NoRadii THEN @ ELSE Without(@, i)]

\* the value getRadii sizes a point by, and the zMin it compares it with
WorkingValue(s, z) ==
    IF s.options.sizeByAbsoluteValue
    THEN MathAbs(Sub(z, s.options.zThreshold)) ELSE z

WorkingZMin(s) == IF s.options.sizeByAbsoluteValue THEN Zero ELSE last.zMin

\* minPxSize <= 2 * radius <= ceil(maxPxSize) for point i of series s,
\* unless its z is null or below the working zMin
SizedWithin(s, i) ==
    (s.zData[i] # Null /\ ~Lt(WorkingValue(s, s.zData[i]), WorkingZMin(s)))
        => /\ Le(s.minPxSize, Mul(R(2), s.radii[i]))
           /\ Le(Mul(R(2), s.radii[i]), R(CeilInt(s.maxPxSize)))

\* C1: after beforePadding on the X axis, every point with a non-null z
\* that is not below the working zMin has a diameter between minPxSize and
\* ceil(maxPxSize), for every z-data, zMin/zMax option, zThreshold and
\* sizeByAbsoluteValue.
C1_DiameterWithinSizes ==
    last.op = "beforePaddingX"
        => \A k \in 1..Len(last.active) :
              \A i \in 1..Len(series[last.active[k]].zData) :
                  SizedWithin(series[last.active[k]], i)

\* what the size options of the charts mean: pixels or percent
SizeMeaning(text) ==
    CASE text = <<"8">> -> [n |-> 8, percent |-> FALSE]
      [] text = <<"4">> -> [n |-> 4, percent |-> FALSE]
      [] text = <<"3", "0">> -> [n |-> 30, percent |-> FALSE]
      [] text = <<"1", "0", "%">> -> [n |-> 10, percent |-> TRUE]
      [] text = <<"2", "0", "%">> -> [n |-> 20, percent |-> TRUE]
      [] text = <<"5", "0", "%">> -> [n |-> 50, percent |-> TRUE]
      [] text = <<"1", "5", "0", "%">> -> [n |-> 150, percent |-> TRUE]

SmallestSide == IF chart.plotWidth < chart.plotHeight THEN chart.plotWidth
                ELSE chart.plotHeight

\* a size option resolved against min(plotWidth, plotHeight)
Resolved(text) ==
    IF SizeMeaning(text).percent
    THEN Norm(SmallestSide * SizeMeaning(text).n, 100)
    ELSE R(SizeMeaning(text).n)

\* bubblePadding set, and visible or ignoreHiddenSeries off
Contributing(s) == s.bubblePadding /\ (s.visible \/ ~chart.ignoreHiddenSeries)

\* C2: after beforePadding on the X axis every contributing series has
\* minPxSize = resolved minSize and maxPxSize = max(resolved maxSize,
\* resolved minSize), so maxPxSize >= minPxSize.
C2_PixelSizes ==
    last.op = "beforePaddingX"
        => \A i \in 1..Len(series) :
              Contributing(series[i])
                  => /\ series[i].minPxSize = Resolved(series[i].options.minSize)
                     /\ series[i].maxPxSize =
                            MathMax(Resolved(series[i].options.maxSize),
                                    Resolved(series[i].options.minSize))
                     /\ Ge(series[i].maxPxSize, series[i].minPxSize)

\* minSize "50%", maxSize "10%" on a 200 x 100 plot: both sizes are 50
C2_Witness ==
    /\ last.op = "beforePaddingX"
    /\ chart.plotWidth = 200 /\ chart.plotHeight = 100
    /\ Contributing(series[1])
    /\ series[1].options.minSize = <<"5", "0", "%">>
    /\ series[1].options.maxSize = <<"1", "0", "%">>
    /\ series[1].minPxSize = R(50)
    /\ series[1].maxPxSize = R(50)

\* the call repeated without point i of series a gives the same pxMin,
\* pxMax, axis.min and axis.max
SameOutcome(o) ==
    /\ o.pxMin = last.pxMin /\ o.pxMax = last.pxMax
    /\ o.axis.min = LastAxis.min /\ o.axis.max = LastAxis.max

SameWithout(a, i) ==
    SameOutcome(beforePadding(AxisBefore,
                              [series EXCEPT ![a] = SeriesWithout(@, i)],
                              chart))

\* C5: a point with z === null gets a null radius, and in beforePadding it
\* changes neither pxMin nor pxMax: axis.min and axis.max come out as if
\* the point were absent, wherever its x or y lies.
C5_NullPointInert ==
    last.op \in PaddingOps
        => \A k \in 1..Len(last.active) :
              \A i \in 1..Len(series[last.active[k]].zData) :
                  series[last.active[k]].zData[i] = Null
                      => /\ series[last.active[k]].radii[i] = Null
                         /\ SameWithout(last.active[k], i)

\* axis.min and axis.max are what they were before the call
ExtremesKept == LastAxis.min = last.min /\ LastAxis.max = last.max

\* C6 as stated: a second beforePadding call directly after the first, with
\* nothing changed in between, leaves axis.min and axis.max as the first
\* call left them.
C6_SecondCallKeeps == last.repeat => ExtremesKept

\* the value is a number within [dataMin, dataMax] of the padded axis
InDataRange(v) ==
    v # Null /\ Le(LastAxis.dataMin, v) /\ Le(v, LastAxis.dataMax)

\* every counted point of every contributing series sat on axis.min or
\* axis.max when the first call was made
AllAtEnds ==
    \A k \in 1..Len(last.active) :
        \A i \in 1..Len(DataOf(series[last.active[k]], LastAxis.isXAxis)) :
            InDataRange(DataOf(series[last.active[k]], LastAxis.isXAxis)[i])
                => DataOf(series[last.active[k]], LastAxis.isXAxis)[i]
                       \in {last.min0, last.max0}

\* every counted bubble of every contributing series is narrower than the
\* axis is long
AllNarrow ==
    \A k \in 1..Len(last.active) :
        \A i \in 1..Len(DataOf(series[last.active[k]], LastAxis.isXAxis)) :
            InDataRange(DataOf(series[last.active[k]], LastAxis.isXAxis)[i])
                => Lt(Mul(R(2), ToNumber(series[last.active[k]].radii[i])),
                      R(LastAxis.len))

\* C6 amended: the second of two successive calls leaves axis.min and
\* axis.max unchanged when every counted point lies on the axis minimum or
\* maximum and every counted bubble is narrower than the axis is long; a
\* bubble centred inside the range that still overflows after the first
\* call makes the second call extend the axis further.
C6_SecondCallKeepsAtEnds ==
    (last.repeat /\ AllAtEnds /\ AllNarrow) => ExtremesKept

\* two calls, the first of which padded both ends for bubbles on them
C6_Witness ==
    /\ last.repeat /\ AllAtEnds /\ AllNarrow
    /\ Lt(last.min, last.min0) /\ Gt(last.max, last.max0)
    /\ ExtremesKept

\* the point is not drawn: no plotY, no shapeArgs, no dlBox, no marker radius
NotDrawn(pt) ==
    /\ pt.plotY = "undefined" /\ pt.shapeArgs = "undefined"
    /\ pt.dlBox = "undefined" /\ pt.markerRadius = Undefined

\* C7: with displayNegative === false no point with z below zThreshold is
\* drawn after beforePadding on the X axis and translate, whichever other
\* bubble series share the axis and whatever the zMin option is.
C7_NegativeNotDrawn ==
    \A a \in 1..Len(series) :
        (series[a].bubblePadding /\ series[a].options.displayNegative = FALSE)
            => \A i \in 1..Len(series[a].zData) :
                  (series[a].zData[i] # Null
                      /\ Lt(series[a].zData[i], series[a].options.zThreshold))
                      => NotDrawn(series[a].points[i])

\* the user pinned the minimum (maximum): the option or userMin is defined
PinnedMin(axis) == axis.options.min # Undefined \/ axis.userMin # Undefined
PinnedMax(axis) == axis.options.max # Undefined \/ axis.userMax # Undefined

\* the axis with nothing pinned
Unpinned(axis) ==
    [axis EXCEPT !.options = [min |-> Undefined, max |-> Undefined],
                 !.userMin = Undefined, !.userMax = Undefined]

\* an unpinned side is where the call on the unpinned axis o would put it
SidesIndependent(o) ==
    /\ ~PinnedMin(LastAxis) => LastAxis.min = o.axis.min
    /\ ~PinnedMax(LastAxis) => LastAxis.max = o.axis.max

\* C9: beforePadding leaves axis.min unchanged when the minimum is pinned
\* and axis.max unchanged when the maximum is pinned; the other side is
\* padded as if nothing were pinned.
C9_PinnedSideKept ==
    last.op \in PaddingOps
        => /\ PinnedMin(LastAxis) => LastAxis.min = last.min
           /\ PinnedMax(LastAxis) => LastAxis.max = last.max
           /\ SidesIndependent(beforePadding(Unpinned(AxisBefore), series, chart))

\* the minimum was pinned through setExtremes and the maximum moved out
C9_Witness ==
    /\ last.op = "beforePaddingX"
    /\ xAxis.userMin # Undefined /\ ~PinnedMax(xAxis)
    /\ Lt(last.pxMin, Zero)
    /\ xAxis.min = last.min /\ Gt(xAxis.max, last.max)

\* no series on the axis contributes to bubble padding
NoContributor == \A i \in 1..Len(series) : ~Contributing(series[i])

\* C10: beforePadding leaves axis.min and axis.max unchanged, and raises no
\* fault, when max - min is zero or negative, or the axis is logarithmic,
\* or no series contributes.
C10_DegenerateUnpadded ==
    (last.op \in PaddingOps
        /\ (Le(Sub(last.max, last.min), Zero) \/ LastAxis.isLog \/ NoContributor))
        => (ExtremesKept /\ ~last.fault)

\* a logarithmic axis whose bubbles overflow
C10_Witness ==
    /\ last.op = "beforePaddingX" /\ xAxis.isLog
    /\ Gt(Sub(last.max, last.min), Zero)
    /\ Len(last.active) # 0 /\ Lt(last.pxMin, Zero)
    /\ ExtremesKept /\ ~last.fault

\* the call was made on an unpinned, linear axis with a positive range and
\* at least one contributing series
PaddedFreely ==
    /\ last.op \in PaddingOps
    /\ ~PinnedMin(LastAxis) /\ ~PinnedMax(LastAxis) /\ ~LastAxis.isLog
    /\ Gt(Sub(last.max, last.min), Zero)
    /\ Len(last.active) # 0

\* C11: padding only extends the axis outward: on an unpinned, linear axis
\* with a positive range and a contributing series, axis.min does not rise,
\* axis.max does not fall and both stay finite, whatever the positions and
\* radii of the bubbles, also when the total overflow reaches the axis length.
C11_OnlyOutward ==
    PaddedFreely
        => /\ IsFinite(LastAxis.min) /\ IsFinite(LastAxis.max)
           /\ Le(LastAxis.min, last.min)
           /\ Ge(LastAxis.max, last.max)

\* the radii of series s are those of getRadii called with the pair
\* (zMin, zMax) of the pass and the series' own pixel sizes
RadiiOfPair(s) ==
    s.radii = getRadii(s.zData, s.options, last.zMin, last.zMax,
                       s.minPxSize, s.maxPxSize)

\* the non-null z values of the contributing series
AllZ ==
    UNION {{series[last.active[k]].zData[i] :
               i \in 1..Len(series[last.active[k]].zData)} :
           k \in 1..Len(last.active)}
        \ {Null}

\* no contributing series sets zMin or zMax or has displayNegative false
NoZOptions ==
    \A k \in 1..Len(last.active) :
        /\ series[last.active[k]].options.zMin = Undefined
        /\ series[last.active[k]].options.zMax = Undefined
        /\ series[last.active[k]].options.displayNegative # FALSE

\* the series in the opposite order
Reversed(ss) == [i \in 1..Len(ss) |-> ss[Len(ss) + 1 - i]]

\* the pass o found the same pair
SamePair(o) == o.zMin = last.zMin /\ o.zMax = last.zMax

\* C12: in one beforePadding pass on the X axis every contributing series
\* gets the radii of getRadii called with the same pair (zMin, zMax) and
\* its own minPxSize and maxPxSize; when no contributing series sets the
\* zMin or zMax option or has displayNegative false, the pair is the least
\* and the greatest z of all contributing series, in whichever order the
\* series are.
C12_GlobalZPair ==
    last.op = "beforePaddingX"
        => /\ \A k \in 1..Len(last.active) :
                 RadiiOfPair(series[last.active[k]])
           /\ (NoZOptions /\ AllZ # {})
                 => /\ last.zMin \in AllZ /\ last.zMax \in AllZ
                    /\ \A z \in AllZ : Le(last.zMin, z) /\ Le(z, last.zMax)
                    /\ SamePair(beforePadding(AxisBefore, Reversed(series),
                                              chart))

\* two contributing series without z options: the least z is in the second,
\* the greatest in the first, and both series are sized by that pair
C12_Witness ==
    /\ last.op = "beforePaddingX"
    /\ Len(last.active) = 2 /\ NoZOptions
    /\ last.zMin \in {series[2].zData[i] : i \in 1..Len(series[2].zData)}
    /\ last.zMax \in {series[1].zData[i] : i \in 1..Len(series[1].zData)}
    /\ Lt(last.zMin, arrayMin(series[1].zData))
    /\ RadiiOfPair(series[1]) /\ RadiiOfPair(series[2])

----------------------------------------------------------------------------
(* getRadii called directly on a series, with arbitrary arguments *)

\* largest pixel size passed to getRadii
MaxPx == 20

\* z values and z limits: integers from -1 to MaxZ
RadiiZ == {R(k) : k \in -1..MaxZ}

\* (minSize, maxSize) pairs: whole and fractional pixel sizes
RadiiSizes == {<<R(8), R(MaxPx)>>, <<Norm(15, 2), R(10)>>, <<R(10), R(8)>>}

InitRadii ==
    /\ chart = PlainChart
    /\ series = << >>
    /\ xAxis = NewAxis(TRUE, 60, 0, 20, 0, 20, "none", "none", FALSE)
    /\ yAxis = NewAxis(FALSE, 50, 0, 4, 0, 4, "none", "none", FALSE)
    /\ last = NoCall
    /\ calls = [x |-> 0, y |-> 0]
    /\ relayout = NoRelayout
    /\ \E z1 \in RadiiZ \cup {Null}, z2 \in RadiiZ, zMin \in RadiiZ,
          zMax \in RadiiZ, sz \in RadiiSizes, by \in {"area", "width"},
          abs \in Bools, thr \in {R(0), R(2)} :
          rcall = [done |-> FALSE, zData |-> <<z1, z2>>,
                   options |-> [DefaultOptions EXCEPT
                                   !.sizeBy = by, !.sizeByAbsoluteValue = abs,
                                   !.zThreshold = thr],
                   zMin |-> zMin, zMax |-> zMax,
                   minSize |-> sz[1], maxSize |-> sz[2], radii |-> NoRadii]

\* series.getRadii(zMin, zMax, minSize, maxSize)
GetRadii ==
    /\ ~rcall.done
    /\ rcall' = [rcall EXCEPT
                    !.done = TRUE,
                    !.radii = getRadii(rcall.zData, rcall.options, rcall.zMin,
                                       rcall.zMax, rcall.minSize, rcall.maxSize)]
    /\ UNCHANGED <<chart, series, xAxis, yAxis, last, calls, relayout>>

NextRadii == GetRadii

SpecRadii == InitRadii /\ [][NextRadii]_vars

----------------------------------------------------------------------------
(* Claims about getRadii *)

\* ceil(minSize) / 2, the radius of the minimum size
MinSizeRadius(minSize) == Div(R(CeilInt(minSize)), R(2))

\* the points of the direct call whose z equals zThreshold all have the
\* minimum-size radius
ThresholdPointsMinimal ==
    \A i \in 1..Len(rcall.zData) :
        rcall.zData[i] = rcall.options.zThreshold
            => rcall.radii[i] = MinSizeRadius(rcall.minSize)

\* C3 as stated: with sizeByAbsoluteValue, every point whose z equals
\* zThreshold gets the radius ceil(minSize)/2, whatever zMin and zMax are
\* (zMin = zMax included).
C3_ThresholdRadiusAnyRange ==
    (rcall.done /\ rcall.options.sizeByAbsoluteValue) => ThresholdPointsMinimal

\* C3 amended: with sizeByAbsoluteValue, every point whose z equals
\* zThreshold gets the radius ceil(minSize)/2 whenever zMax > zMin; with
\* zMax <= zMin the relative size is 0.5 instead of 0.
C3_ThresholdRadius ==
    (rcall.done /\ rcall.options.sizeByAbsoluteValue
        /\ Gt(rcall.zMax, rcall.zMin)) => ThresholdPointsMinimal

C3_Witness ==
    /\ rcall.done /\ rcall.options.sizeByAbsoluteValue
    /\ Gt(rcall.zMax, rcall.zMin)
    /\ rcall.zData[2] = rcall.options.zThreshold
    /\ rcall.minSize = Norm(15, 2)
    /\ rcall.radii[2] = R(4)

\* z is a number inside [zMin, zMax]
InZRange(z) == z # Null /\ Le(rcall.zMin, z) /\ Le(z, rcall.zMax)

\* |z - zThreshold|
Distance(z) == MathAbs(Sub(z, rcall.options.zThreshold))

\* radius(z1) <= radius(z2) for every two points with z1 < z2 in range
MonotonicInZ ==
    \A i, j \in 1..Len(rcall.zData) :
        (InZRange(rcall.zData[i]) /\ InZRange(rcall.zData[j])
            /\ Lt(rcall.zData[i], rcall.zData[j]))
            => Le(rcall.radii[i], rcall.radii[j])

\* radius(z1) <= radius(z2) for every two points with
\* |z1 - zThreshold| <= |z2 - zThreshold|
MonotonicInDistance ==
    \A i, j \in 1..Len(rcall.zData) :
        (rcall.zData[i] # Null /\ rcall.zData[j] # Null
            /\ Le(Distance(rcall.zData[i]), Distance(rcall.zData[j])))
            => Le(rcall.radii[i], rcall.radii[j])

\* C4 as stated: for minSize <= maxSize, two points with z1 < z2, both in
\* [zMin, zMax], get radius(z1) <= radius(z2), with and without
\* sizeByAbsoluteValue.
C4_MonotonicAlways ==
    (rcall.done /\ Le(rcall.minSize, rcall.maxSize)) => MonotonicInZ

\* C4 amended: for minSize <= maxSize, without sizeByAbsoluteValue two
\* points with z1 < z2 in [zMin, zMax] get radius(z1) <= radius(z2); with
\* sizeByAbsoluteValue the radius is monotonic in |z - zThreshold| instead.
C4_Monotonic ==
    (rcall.done /\ Le(rcall.minSize, rcall.maxSize))
        => IF rcall.options.sizeByAbsoluteValue THEN MonotonicInDistance
           ELSE MonotonicInZ

C4_Witness ==
    /\ rcall.done /\ Le(rcall.minSize, rcall.maxSize)
    /\ ~rcall.options.sizeByAbsoluteValue
    /\ InZRange(rcall.zData[1]) /\ InZRange(rcall.zData[2])
    /\ Lt(rcall.zData[1], rcall.zData[2])
    /\ Lt(rcall.radii[1], rcall.radii[2])

----------------------------------------------------------------------------
(* The relayout of a chart with responsive rules and drill-down. The chart
   of the test 'Drill up button with responsive rules' is a column chart:
   no series contributes to bubble padding, so a layout pass pads no axis.
   The responsive and drill-down modules are described by the
   specification's sections 4.3 and 6. *)

\* deepest drill-down level explored
MaxDrill == 2

\* a rule condition; an absent limit is undefined
Condition(maxWidth, minWidth, maxHeight, minHeight) ==
    [maxWidth |-> maxWidth, minWidth |-> minWidth,
     maxHeight |-> maxHeight, minHeight |-> minHeight]

\* chartOptions of a rule: drilldown.breadcrumbs.position.y
Fragment(y) == [breadcrumbsY |-> y]

\* the fragment that overrides nothing
NoFragment == Fragment(Undefined)

\* the rule of the test: maxWidth 400 puts the breadcrumbs at y 100
TestRule ==
    [condition |-> Condition(R(400), Undefined, Undefined, Undefined),
     chartOptions |-> Fragment(R(100))]

WideRule ==
    [condition |-> Condition(Undefined, R(200), Undefined, Undefined),
     chartOptions |-> Fragment(R(50))]

LowRule ==
    [condition |-> Condition(Undefined, Undefined, R(100), Undefined),
     chartOptions |-> Fragment(R(20))]

TallRule ==
    [condition |-> Condition(Undefined, Undefined, Undefined, R(150)),
     chartOptions |-> NoFragment]

\* the rule lists explored
RuleLists ==
    {<<TestRule>>, << >>, <<TestRule, WideRule>>, <<WideRule, TestRule>>,
     <<TestRule, LowRule>>, <<TestRule, TallRule>>}

\* the container sizes explored
Widths == {300, 500}
Heights == {200}

\* the condition holds for a container of the given size
Matches(condition, width, height) ==
    /\ condition.maxWidth = Undefined \/ Le(R(width), condition.maxWidth)
    /\ condition.minWidth = Undefined \/ Ge(R(width), condition.minWidth)
    /\ condition.maxHeight = Undefined \/ Le(R(height), condition.maxHeight)
    /\ condition.minHeight = Undefined \/ Ge(R(height), condition.minHeight)

\* the rules whose condition holds, in the order of the rule list
RECURSIVE activeRules(_, _, _)
activeRules(width, height, rules) ==
    IF rules = << >> THEN << >>
    ELSE IF Matches(Head(rules).condition, width, height)
         THEN <<Head(rules)>> \o activeRules(width, height, Tail(rules))
    ELSE activeRules(width, height, Tail(rules))

\* one fragment merged over a configuration: a key it sets wins
Merge(config, fragment) ==
    [breadcrumbsY |-> pick(fragment.breadcrumbsY, config.breadcrumbsY)]

\* the fragments merged in order over the base configuration: last wins
RECURSIVE resolve(_, _)
resolve(baseConfig, overrideFragments) ==
    IF overrideFragments = << >> THEN baseConfig
    ELSE resolve(Merge(baseConfig, Head(overrideFragments)),
                 Tail(overrideFragments))

\* the merged fragment of the rules active for the container
MergedFragment(r) ==
    resolve(NoFragment,
            [i \in 1..Len(activeRules(r.width, r.height, r.rules)) |->
                activeRules(r.width, r.height, r.rules)[i].chartOptions])

\* entry to Evaluating: the merged fragment is applied to the effective
\* options when it differs from the one applied last
Evaluate(r) ==
    [r EXCEPT !.state = "Evaluating", !.pending = FALSE,
              !.applied = MergedFragment(r),
              !.effective = IF MergedFragment(r) # r.applied
                            THEN resolve(r.base, <<MergedFragment(r)>>)
                            ELSE @]

\* a trigger: starts a pass when idle, is coalesced into one pending pass
\* otherwise
Trigger(r) ==
    IF r.state = "Idle" THEN Evaluate(r) ELSE [r EXCEPT !.pending = TRUE]

\* BreadcrumbsY that reads the base options instead of the effective ones
BreadcrumbsY_Base(r) ==
    IF r.level > 0 THEN r.base.breadcrumbsY ELSE Undefined

\* alignOptions.y of the breadcrumbs group: the group exists while the
\* chart is drilled down and is aligned by the effective position options
BreadcrumbsY(r) ==
    IF r.level > 0 THEN r.effective.breadcrumbsY ELSE Undefined

\* a chart before its first render; position.y is not set by default
NewChart(width, height, rules) ==
    [state |-> "Idle", rendered |-> FALSE, pending |-> FALSE,
     width |-> width, height |-> height, rules |-> rules,
     base |-> NoFragment, applied |-> NoFragment, effective |-> NoFragment,
     level |-> 0, alignY |-> Undefined]

InitRelayout ==
    /\ chart = PlainChart
    /\ series = << >>
    /\ xAxis = NewAxis(TRUE, 60, 0, 20, 0, 20, "none", "none", FALSE)
    /\ yAxis = NewAxis(FALSE, 50, 0, 4, 0, 4, "none", "none", FALSE)
    /\ last = NoCall
    /\ calls = [x |-> 0, y |-> 0]
    /\ rcall = NoRadiiCall
    /\ \E w \in Widths, h \in Heights, rules \in RuleLists :
          relayout = NewChart(w, h, rules)

Others == <<chart, series, xAxis, yAxis, last, calls, rcall>>

\* Highcharts.chart(...): the initial render
Render ==
    /\ ~relayout.rendered
    /\ relayout' = Trigger([relayout EXCEPT !.rendered = TRUE])
    /\ UNCHANGED Others

\* the container is resized
Resize ==
    /\ relayout.rendered
    /\ \E w \in Widths \ {relayout.width} :
          relayout' = Trigger([relayout EXCEPT !.width = w])
    /\ UNCHANGED Others

\* the data is changed
DataChange ==
    /\ relayout.rendered
    /\ relayout' = Trigger(relayout)
    /\ UNCHANGED Others

\* point.doDrilldown()
DrillDown ==
    /\ relayout.rendered
    /\ relayout.level < MaxDrill
    /\ relayout' = Trigger([relayout EXCEPT !.level = @ + 1])
    /\ UNCHANGED Others

\* chart.drillUp()
DrillUp ==
    /\ relayout.rendered
    /\ relayout.level > 0
    /\ relayout' = Trigger([relayout EXCEPT !.level = @ - 1])
    /\ UNCHANGED Others

\* Evaluating -> Laying Out: no axis has a contributing series; the
\* breadcrumbs group is aligned
LayOut ==
    /\ relayout.state = "Evaluating"
    /\ relayout' = [relayout EXCEPT !.state = "LayingOut",
                                    !.alignY = BreadcrumbsY(relayout)]
    /\ UNCHANGED Others

\* Laying Out -> Idle, or into the one pending pass
Finish ==
    /\ relayout.state = "LayingOut"
    /\ relayout' = IF relayout.pending
                   THEN Evaluate(relayout)
                   ELSE [relayout EXCEPT !.state = "Idle"]
    /\ UNCHANGED Others

NextRelayout ==
    \/ Render
    \/ Resize
    \/ DataChange
    \/ DrillDown
    \/ DrillUp
    \/ LayOut
    \/ Finish

SpecRelayout == InitRelayout /\ [][NextRelayout]_vars

----------------------------------------------------------------------------
(* Claims about the relayout *)

\* the override of the last rule of the list that sets position.y and whose
\* condition holds for the container, undefined if there is none
RECURSIVE RuleY(_, _)
RuleY(rules, n) ==
    IF n = 0 THEN Undefined
    ELSE IF /\ Matches(rules[n].condition, relayout.width, relayout.height)
            /\ rules[n].chartOptions.breadcrumbsY # Undefined
         THEN rules[n].chartOptions.breadcrumbsY
    ELSE RuleY(rules, n - 1)

\* the chart is rendered, drilled down, and no layout pass is running
DrilledAndIdle ==
    relayout.state = "Idle" /\ relayout.rendered /\ relayout.level > 0

\* C8: a responsive rule whose condition holds for the container is in
\* effect after every relayout, not only after the initial render: once a
\* drilled-down chart is laid out, the breadcrumbs group's alignOptions.y
\* is the rule's position.y (100 for width 300 and the rule maxWidth 400).
C8_RuleStaysApplied ==
    DrilledAndIdle
        => relayout.alignY = RuleY(relayout.rules, Len(relayout.rules))

\* the chart of the test after doDrilldown()
C8_Witness ==
    /\ DrilledAndIdle
    /\ relayout.width = 300 /\ relayout.rules = <<TestRule>>
    /\ relayout.level = 1
    /\ relayout.alignY = R(100)

====
